---- MODULE Spec2Model ----
(***************************************************************************)
(* Model of the terragrunt stack-command wrapper of modules/terragrunt:    *)
(* command construction (cmd.go, stack_output.go), the retried execution   *)
(* of the constructed command, the warning classifier hasWarning and the   *)
(* output cleaners cleanTerragruntOutput and cleanTerragruntJson.          *)
(*                                                                         *)
(* Texts are sequences of tokens.  A token is one character or a fixed     *)
(* multi-character piece of text whose inner structure no code path looks  *)
(* into (a whole log signature, the beginning of a warning line).          *)
(***************************************************************************)
EXTENDS Integers, Sequences, FiniteSets, TLC

VARIABLES
    pc,             \* position of the call: "start", "build", "attempt", "done";
                    \* "raw", "cleaned", "recleaned" for the cleaner;
                    \* "rawJson", "cleanedJson" for the JSON cleaner;
                    \* "warn", "warned", "rewarned" for direct hasWarning calls
    opts,           \* the Options value of the call
    entry,          \* "run" | "bare" | "output" | "outputJson"
    additionalArgs, \* additionalArgs (run, bare) or options.ExtraArgs (output paths)
    key,            \* key of TgOutputE / TgOutputJsonE ("" = none)
    commandArgs,    \* commandArgs after the capability probe
    finalArgs,      \* argument vector of execCommand
    probeCalls,     \* shell.RunCommandE invocations (capability probe)
    execCalls,      \* shell.RunCommandAndGetOutputE invocations of execCommand
    retries,        \* waits made by the retry loop
    procErr,        \* error of the last process execution
    shellOut,       \* output captured by the process execution the call ended with
    output,         \* output string returned by the call
    err,            \* error returned by the last attempt / by the call
    rawOutput,      \* input of cleanTerragruntOutput / cleanTerragruntJson
    cleaned,        \* cleanTerragruntOutput(rawOutput) / cleanTerragruntJson(rawOutput)
    recleaned       \* cleanTerragruntOutput(cleaned)

vars == <<pc, opts, entry, additionalArgs, key, commandArgs, finalArgs, probeCalls,
          execCalls, retries, procErr, shellOut, output, err, rawOutput, cleaned,
          recleaned>>

cleanVars == <<rawOutput, cleaned, recleaned>>

(***************************************************************************)
(* Bounds of the model.                                                    *)
(***************************************************************************)
MaxArgs == 2            \* longest list of additional arguments
MaxRetriesBound == 2    \* largest Options.MaxRetries
MaxExecOutLen == 3      \* longest output of an executed command, in tokens
MaxOutLen == 5          \* longest output handed to hasWarning directly
MaxLen == 4             \* longest raw output handed to the cleaner

\* All sequences over S of length at most n.
SeqsUpTo(S, n) == UNION {[1..k -> S] : k \in 0..n}

\* All orders in which the keys of a Go map can be visited by range.
Orders(S) == {o \in [1..Cardinality(S) -> S] : \A i, j \in DOMAIN o : i # j => o[i] # o[j]}

StackCommandRun == "run"

(***************************************************************************)
(* Errors.                                                                 *)
(***************************************************************************)
NoError == [kind |-> "nil"]
ConfigError == [kind |-> "config"]
ProcessError(text) == [kind |-> "process", text |-> text]
RegexError(pattern) == [kind |-> "regex", pattern |-> pattern]
WarningError(message, matches) == [kind |-> "warning", msg |-> message, matches |-> matches]

(***************************************************************************)
(* Output of an executed command, as handed to hasWarning.  NL is the      *)
(* newline; WarnDeprecat, WarnDeprecatY and WarnUnsupp are the beginnings   *)
(* of warning lines; Other is any text without a newline and without       *)
(* "Warning: ".                                                            *)
(***************************************************************************)
NL == "\n"
WarnDeprecat == "Warning: Deprecated option X"
WarnDeprecatY == "Warning: Deprecated option Y"
WarnUnsupp == "Warning: Unsupported argument"
Other == "x"
OutTokens == {NL, WarnDeprecat, WarnDeprecatY, WarnUnsupp, Other}
ExecOutTokens == {NL, WarnDeprecat, Other}

\* Patterns a caller may configure in WarningsAsErrors; "(" does not compile.
PatDeprecat == "Deprecat"
PatUnsupp == "Unsupp"
PatMalformed == "("
WarnPatterns == {PatDeprecat, PatUnsupp, PatMalformed}
ExecWarnPatterns == {PatDeprecat, PatMalformed}

MessageOf(p) ==
    CASE p = PatDeprecat -> "deprecated features used"
      [] p = PatUnsupp -> "unsupported argument used"
      [] OTHER -> "malformed"

\* The WarningsAsErrors mappings over a set of patterns.
WarningMaps(P) == {[p \in S |-> MessageOf(p)] : S \in SUBSET P}

\* regexp.Compile of "\nWarning: <pattern>[^\n]*\n".
Compiles(pattern) == pattern # PatMalformed

\* The token at which "Warning: <pattern>" matches.
MatchesAt(pattern, tok) ==
    \/ pattern = PatDeprecat /\ tok \in {WarnDeprecat, WarnDeprecatY}
    \/ pattern = PatUnsupp /\ tok = WarnUnsupp

\* Index of the first newline of out at or after i, 0 when there is none.
RECURSIVE NextNL(_, _)
NextNL(out, i) ==
    IF i > Len(out) THEN 0
    ELSE IF out[i] = NL THEN i
    ELSE NextNL(out, i + 1)

\* compiledRegex.FindAllString(commandOutput, -1) from position i on: the
\* leftmost matches of "\nWarning: <pattern>[^\n]*\n", none overlapping another:
\* the search goes on after the last character of a match.
RECURSIVE FindAllFrom(_, _, _)
FindAllFrom(pattern, out, i) ==
    IF i >= Len(out) THEN <<>>
    ELSE IF out[i] = NL /\ MatchesAt(pattern, out[i + 1]) /\ NextNL(out, i + 1) # 0
    THEN LET j == NextNL(out, i + 1)
         IN  <<SubSeq(out, i, j)>> \o FindAllFrom(pattern, out, j + 1)
    ELSE FindAllFrom(pattern, out, i + 1)

FindAllString(pattern, out) == FindAllFrom(pattern, out, 1)

\* hasWarning over the patterns in the order range visits them, from the i-th on.
RECURSIVE hasWarningFrom(_, _, _, _)
hasWarningFrom(warnings, order, i, commandOutput) ==
    IF i > Len(order) THEN NoError
    ELSE LET warningPattern == order[i]
             matches == FindAllString(warningPattern, commandOutput)
         IN  IF ~Compiles(warningPattern) THEN RegexError(warningPattern)
             ELSE IF Len(matches) = 0
             THEN hasWarningFrom(warnings, order, i + 1, commandOutput)
             ELSE WarningError(warnings[warningPattern], matches)

hasWarning(warnings, order, commandOutput) ==
    hasWarningFrom(warnings, order, 1, commandOutput)

(***************************************************************************)
(* Options and command construction.                                       *)
(***************************************************************************)
\* Patterns a caller may configure in RetryableTerraformErrors.  "transient"
\* occurs in the text of a transient process failure; "warning" occurs in the
\* text of both errors of hasWarning ("warning(s) were found: ...", "cannot
\* compile regex for warning detection: ...").
RetryPatterns == {"transient", "warning"}

ArgTokens == {"plan", "--"}
Keys == {"", "k"}

validateOptions(o) ==
    IF o.TerragruntBinary = "" \/ o.TerragruntDir = "" THEN ConfigError ELSE NoError

GetCommonOptions(o, args) == [options |-> o, args |-> args]

\* TgOutputE / TgOutputJsonE: the arguments placed after "output".
OutputArgs(json, extraArgs, k) ==
    (IF json THEN <<"-no-color", "-json">> ELSE <<"-no-color">>)
        \o extraArgs
        \o (IF k # "" THEN <<k>> ELSE <<>>)

\* runTerragruntStackSubCommandE: "stack", the subcommand, the probe's prefix.
BaseArgs(subCommand, probeOk) ==
    (IF probeOk THEN <<"-experiment", "stack">> ELSE <<>>)
        \o <<"stack">>
        \o (IF subCommand # "" THEN <<subCommand>> ELSE <<>>)

\* A builder that separates the additional arguments of every subcommand.
AppendAdditionalAlways(subCommand, args, additional) ==
    args \o <<"--">> \o additional

\* runTerragruntStackSubCommandE: separator rule for the additional arguments.
AppendAdditional(subCommand, args, additional) ==
    IF subCommand = StackCommandRun
    THEN args \o (<<"--">> \o additional)
    ELSE args \o additional

\* runTerragruntStackOutputCommand: "stack output" with all arguments inline.
StackOutputArgs(outputArgs) ==
    <<"stack", "output">> \o outputArgs

SubCommandOf(e) == IF e = "run" THEN StackCommandRun ELSE ""

(***************************************************************************)
(* Execution.                                                              *)
(***************************************************************************)
\* shell.RunCommandE / RunCommandAndGetOutputE: what running the binary can
\* give.  An empty binary path cannot be started.
ProcessErrors == {ProcessError("transient"), ProcessError("permanent")}

ShellResults(o) ==
    IF o.TerragruntBinary = ""
    THEN {[output |-> <<>>, err |-> ProcessError("permanent")]}
    ELSE [output : SeqsUpTo(ExecOutTokens, MaxExecOutLen), err : {NoError} \cup ProcessErrors]

\* An action that classifies the output whatever the process error.
CommandActionWarningFirst(o, res, order) ==
    LET warningErr == hasWarning(o.WarningsAsErrors, order, res.output)
    IN  IF warningErr # NoError THEN [output |-> res.output, err |-> warningErr]
        ELSE [output |-> res.output, err |-> res.err]

\* An action that accepts the output of a successful execution unclassified.
CommandActionNoCheck(o, res, order) ==
    [output |-> res.output, err |-> res.err]

\* The action handed to retry.DoWithRetryableErrorsE (cmd.go and
\* stack_output.go hold the same closure).
CommandAction(o, res, order) ==
    IF res.err # NoError THEN [output |-> res.output, err |-> res.err]
    ELSE LET warningErr == hasWarning(o.WarningsAsErrors, order, res.output)
         IN  IF warningErr # NoError THEN [output |-> res.output, err |-> warningErr]
             ELSE [output |-> res.output, err |-> NoError]

\* Whether a pattern of the retryable-error mapping matches the error text.
PatternMatches(pattern, e) ==
    \/ e.kind = "process" /\ e.text = pattern
    \/ e.kind \in {"warning", "regex"} /\ pattern = "warning"

IsRetryable(retryable, e) == \E pattern \in retryable : PatternMatches(pattern, e)

\* retry.DoWithRetryableErrorsE after an attempt: "return" or "retry".
RetryDecision(retryable, maxRetries, retriesDone, e) ==
    IF e = NoError THEN "return"
    ELSE IF ~IsRetryable(retryable, e) THEN "return"
    ELSE IF retriesDone >= maxRetries THEN "return"
    ELSE "retry"

OptionsSet ==
    [TerragruntBinary : {"", "terragrunt"},
     TerragruntDir : {"", "live"},
     MaxRetries : 0..MaxRetriesBound,
     RetryableTerraformErrors : SUBSET RetryPatterns,
     WarningsAsErrors : WarningMaps(ExecWarnPatterns)]

Idle ==
    /\ commandArgs = <<>>
    /\ finalArgs = <<>>
    /\ probeCalls = 0
    /\ execCalls = 0
    /\ retries = 0
    /\ procErr = NoError
    /\ shellOut = <<>>
    /\ output = <<>>
    /\ err = NoError

NoCleaning ==
    /\ rawOutput = <<>>
    /\ cleaned = <<>>
    /\ recleaned = <<>>

\* A call of a stack command with no additional arguments.
Init ==
    /\ pc = "start"
    /\ opts \in OptionsSet
    /\ entry \in {"run", "bare", "output", "outputJson"}
    /\ additionalArgs = <<>>
    /\ key = ""
    /\ Idle
    /\ NoCleaning

\* runTerragruntStackOutputCommand: validateOptions.
Validate ==
    /\ pc = "start"
    /\ entry \in {"output", "outputJson"}
    /\ IF validateOptions(opts) # NoError
       THEN /\ pc' = "done"
            /\ err' = validateOptions(opts)
            /\ output' = <<>>
            /\ UNCHANGED commandArgs
       ELSE /\ pc' = "build"
            /\ commandArgs' = StackOutputArgs(OutputArgs(entry = "outputJson", additionalArgs, key))
            /\ UNCHANGED <<err, output>>
    /\ UNCHANGED <<opts, entry, additionalArgs, key, finalArgs, probeCalls, execCalls,
                   retries, procErr, shellOut>>
    /\ UNCHANGED cleanVars

\* runTerragruntStackSubCommandE: the capability probe "-experiment stack".
Probe ==
    /\ pc = "start"
    /\ entry \in {"run", "bare"}
    /\ \E res \in ShellResults(opts) :
          commandArgs' = BaseArgs(SubCommandOf(entry), res.err = NoError)
    /\ probeCalls' = probeCalls + 1
    /\ pc' = "build"
    /\ UNCHANGED <<opts, entry, additionalArgs, key, finalArgs, execCalls, retries,
                   procErr, shellOut, output, err>>
    /\ UNCHANGED cleanVars

\* GetCommonOptions, the separator rule and generateCommand.
Build ==
    /\ pc = "build"
    /\ LET common == GetCommonOptions(opts, commandArgs)
       IN  finalArgs' =
              IF entry \in {"run", "bare"}
              THEN AppendAdditional(SubCommandOf(entry), common.args, additionalArgs)
              ELSE common.args
    /\ pc' = "attempt"
    /\ UNCHANGED <<opts, entry, additionalArgs, key, commandArgs, probeCalls, execCalls,
                   retries, procErr, shellOut, output, err>>
    /\ UNCHANGED cleanVars

\* One attempt of retry.DoWithRetryableErrorsE: run execCommand, classify its
\* output, then return or wait and go round again.  The output of an attempt
\* that is retried is dropped: the next attempt overwrites it unread.
Attempt ==
    /\ pc = "attempt"
    /\ \E res \in ShellResults(opts), order \in Orders(DOMAIN opts.WarningsAsErrors) :
          LET got == CommandAction(opts, res, order)
              decision == RetryDecision(opts.RetryableTerraformErrors, opts.MaxRetries,
                                        retries, got.err)
          IN  /\ procErr' = res.err
              /\ err' = got.err
              /\ shellOut' = IF decision = "retry" THEN <<>> ELSE res.output
              /\ output' = IF decision = "retry" THEN <<>> ELSE got.output
              /\ pc' = IF decision = "retry" THEN "attempt" ELSE "done"
              /\ retries' = IF decision = "retry" THEN retries + 1 ELSE retries
    /\ execCalls' = execCalls + 1
    /\ UNCHANGED <<opts, entry, additionalArgs, key, commandArgs, finalArgs, probeCalls>>
    /\ UNCHANGED cleanVars

Next == Validate \/ Probe \/ Build \/ Attempt

Spec == Init /\ [][Next]_vars

\* Calls with additional arguments, extra arguments and keys.
InitArgs ==
    /\ pc = "start"
    /\ opts \in {o \in OptionsSet :
                    /\ o.MaxRetries = 0
                    /\ o.RetryableTerraformErrors = {}
                    /\ DOMAIN o.WarningsAsErrors = {}}
    /\ entry \in {"run", "bare", "output", "outputJson"}
    /\ additionalArgs \in SeqsUpTo(ArgTokens, MaxArgs)
    /\ key \in (IF entry \in {"run", "bare"} THEN {""} ELSE Keys)
    /\ Idle
    /\ NoCleaning

SpecArgs == InitArgs /\ [][Next]_vars

(***************************************************************************)
(* hasWarning called on an output.                                         *)
(***************************************************************************)
InitWarn ==
    /\ pc = "warn"
    /\ opts \in [TerragruntBinary : {"terragrunt"},
                 TerragruntDir : {"live"},
                 MaxRetries : {0},
                 RetryableTerraformErrors : {{}},
                 WarningsAsErrors : WarningMaps(WarnPatterns)]
    /\ entry = "run"
    /\ additionalArgs = <<>>
    /\ key = ""
    /\ commandArgs = <<>>
    /\ finalArgs = <<>>
    /\ probeCalls = 0
    /\ execCalls = 0
    /\ retries = 0
    /\ procErr = NoError
    /\ shellOut \in SeqsUpTo(OutTokens, MaxOutLen)
    /\ output = shellOut
    /\ err = NoError
    /\ NoCleaning

\* hasWarning(opts, output), range visiting the patterns in some order.
HasWarningCall ==
    /\ pc = "warn"
    /\ \E order \in Orders(DOMAIN opts.WarningsAsErrors) :
          err' = hasWarning(opts.WarningsAsErrors, order, output)
    /\ pc' = "warned"
    /\ UNCHANGED <<opts, entry, additionalArgs, key, commandArgs, finalArgs, probeCalls,
                   execCalls, retries, procErr, shellOut, output>>
    /\ UNCHANGED cleanVars

\* A second hasWarning(opts, output) with the same Options and output.
HasWarningAgain ==
    /\ pc = "warned"
    /\ \E order \in Orders(DOMAIN opts.WarningsAsErrors) :
          err' = hasWarning(opts.WarningsAsErrors, order, output)
    /\ pc' = "rewarned"
    /\ UNCHANGED <<opts, entry, additionalArgs, key, commandArgs, finalArgs, probeCalls,
                   execCalls, retries, procErr, shellOut, output>>
    /\ UNCHANGED cleanVars

NextWarn == HasWarningCall \/ HasWarningAgain

SpecWarn == InitWarn /\ [][NextWarn]_vars

(***************************************************************************)
(* The scalar output cleaner.  A raw output is a sequence of the tokens    *)
(* below: LogSig is a whole match of the structured-log signature          *)
(* "time=t level=l prefix=p binary=b msg=", Msg the text " msg=" outside   *)
(* such a signature.                                                       *)
(***************************************************************************)
Quote == "\""
Space == " "
Letter == "a"
LBrace == "{"
LBracket == "["
Msg == " msg="
LogSig == "time=t level=l prefix=p binary=b msg="
Chars == {Quote, Space, NL, Letter, LBrace, LBracket, Msg, LogSig}

IsSpace(c) == c \in {Space, NL}

\* strings.Split(s, "\n")
RECURSIVE Split(_)
Split(s) ==
    LET j == NextNL(s, 1)
    IN  IF j = 0 THEN <<s>>
        ELSE <<SubSeq(s, 1, j - 1)>> \o Split(SubSeq(s, j + 1, Len(s)))

\* strings.Join(lines, "\n")
RECURSIVE Join(_)
Join(lines) ==
    IF Len(lines) = 0 THEN <<>>
    ELSE IF Len(lines) = 1 THEN lines[1]
    ELSE lines[1] \o <<NL>> \o Join(Tail(lines))

\* strings.Contains(s, tok) for a one-token text
Contains(s, tok) == \E i \in 1..Len(s) : s[i] = tok

\* strings.TrimSpace
RECURSIVE TrimLeft(_, _)
TrimLeft(s, cut) ==
    IF s # <<>> /\ Head(s) \in cut THEN TrimLeft(Tail(s), cut) ELSE s

RECURSIVE TrimRight(_, _)
TrimRight(s, cut) ==
    IF s # <<>> /\ s[Len(s)] \in cut THEN TrimRight(SubSeq(s, 1, Len(s) - 1), cut) ELSE s

TrimSpace(s) ==
    LET white == {c \in Chars : IsSpace(c)}
    IN  TrimRight(TrimLeft(s, white), white)

\* strings.Trim(s, cutset): every leading and trailing character of the cutset
Trim(s, cutset) == TrimRight(TrimLeft(s, cutset), cutset)

HasPrefix(s, tok) == s # <<>> /\ s[1] = tok
HasSuffix(s, tok) == s # <<>> /\ s[Len(s)] = tok

\* tgLogLevel.ReplaceAllString(rawOutput, ""): ".*<signature>.*" matches the
\* whole of each line that holds a signature, and never a newline.
RECURSIVE BlankLogLines(_)
BlankLogLines(lines) ==
    IF lines = <<>> THEN <<>>
    ELSE <<IF Contains(Head(lines), LogSig) THEN <<>> ELSE Head(lines)>>
            \o BlankLogLines(Tail(lines))

tgLogLevelReplace(raw) == Join(BlankLogLines(Split(raw)))

\* String literals of a JSON payload; StrMsg is "\"a msg=b\"", a string whose
\* text holds " msg=".
StrMother == "\"mother.output\""
StrFather == "\"father.output\""
StrMsg == "\"a msg=b\""

\* strings.Contains(line, " msg="): the log signature holds " msg=" too, and
\* so does a JSON string whose text holds it.
HoldsMsg(line) == Contains(line, Msg) \/ Contains(line, LogSig) \/ Contains(line, StrMsg)

\* The loop over lines: the trimmed lines that are not blank and hold no " msg=".
RECURSIVE KeepLines(_)
KeepLines(lines) ==
    IF lines = <<>> THEN <<>>
    ELSE LET line == Head(lines)
             trimmed == TrimSpace(line)
         IN  (IF trimmed # <<>> /\ ~HoldsMsg(line)
              THEN <<trimmed>> ELSE <<>>)
                \o KeepLines(Tail(lines))

\* finalOutput before the JSON check and the quote stripping.
FilteredText(raw) ==
    TrimSpace(Join(KeepLines(Split(tgLogLevelReplace(raw)))))

\* A cleaner that strips quotes when the text begins or ends with one.
cleanTerragruntOutputEitherQuote(raw) ==
    LET finalOutput == FilteredText(raw)
    IN  IF Len(KeepLines(Split(tgLogLevelReplace(raw)))) = 0
        THEN [value |-> <<>>, err |-> NoError]
        ELSE IF HasPrefix(finalOutput, LBrace) \/ HasPrefix(finalOutput, LBracket)
        THEN [value |-> finalOutput, err |-> NoError]
        ELSE IF HasPrefix(finalOutput, Quote) \/ HasSuffix(finalOutput, Quote)
        THEN [value |-> Trim(finalOutput, {Quote}), err |-> NoError]
        ELSE [value |-> finalOutput, err |-> NoError]

cleanTerragruntOutput(raw) ==
    LET finalOutput == FilteredText(raw)
    IN  IF Len(KeepLines(Split(tgLogLevelReplace(raw)))) = 0
        THEN [value |-> <<>>, err |-> NoError]
        ELSE IF HasPrefix(finalOutput, LBrace) \/ HasPrefix(finalOutput, LBracket)
        THEN [value |-> finalOutput, err |-> NoError]
        ELSE IF HasPrefix(finalOutput, Quote) /\ HasSuffix(finalOutput, Quote)
        THEN [value |-> Trim(finalOutput, {Quote}), err |-> NoError]
        ELSE [value |-> finalOutput, err |-> NoError]

InitClean ==
    /\ pc = "raw"
    /\ opts \in [TerragruntBinary : {"terragrunt"},
                 TerragruntDir : {"live"},
                 MaxRetries : {0},
                 RetryableTerraformErrors : {{}},
                 WarningsAsErrors : WarningMaps({})]
    /\ entry = "output"
    /\ additionalArgs = <<>>
    /\ key = ""
    /\ Idle
    /\ rawOutput \in SeqsUpTo(Chars, MaxLen)
    /\ cleaned = <<>>
    /\ recleaned = <<>>

\* TgOutputE: cleanTerragruntOutput(rawOutput)
Clean ==
    /\ pc = "raw"
    /\ cleaned' = cleanTerragruntOutput(rawOutput).value
    /\ err' = cleanTerragruntOutput(rawOutput).err
    /\ pc' = "cleaned"
    /\ UNCHANGED <<opts, entry, additionalArgs, key, commandArgs, finalArgs, probeCalls,
                   execCalls, retries, procErr, shellOut, output, rawOutput, recleaned>>

\* cleanTerragruntOutput applied to its own result
CleanAgain ==
    /\ pc = "cleaned"
    /\ recleaned' = cleanTerragruntOutput(cleaned).value
    /\ err' = cleanTerragruntOutput(cleaned).err
    /\ pc' = "recleaned"
    /\ UNCHANGED <<opts, entry, additionalArgs, key, commandArgs, finalArgs, probeCalls,
                   execCalls, retries, procErr, shellOut, output, rawOutput, cleaned>>

NextClean == Clean \/ CleanAgain

SpecClean == InitClean /\ [][NextClean]_vars

(***************************************************************************)
(* The JSON output cleaner.  A payload is a JSON document of string        *)
(* literals, objects and arrays; its text is a sequence of the tokens      *)
(* "{", "}", "[", "]", ":", ",", the string literals, spaces and newlines. *)
(***************************************************************************)
MaxFields == 2          \* most fields of an object, most elements of an array
MaxDepth == 1           \* deepest nesting below the payload's own object or array

RBrace == "}"
RBracket == "]"
Colon == ":"
Comma == ","
JsonStrings == {StrMother, StrMsg}
JsonKeys == {StrMother, StrFather}
AllJsonStrings == JsonStrings \cup JsonKeys

JsonError == [kind |-> "json"]

\* The field lists of objects over the values vs: no key twice.
FieldLists(vs) ==
    {fs \in SeqsUpTo(JsonKeys \X vs, MaxFields) :
        \A i, j \in DOMAIN fs : i # j => fs[i][1] # fs[j][1]}

\* The documents nested at most d deep, fields in the order they are written.
RECURSIVE Docs(_)
Docs(d) ==
    LET strs == {[t |-> "str", v |-> x, f |-> <<>>] : x \in JsonStrings}
    IN  IF d = 0 THEN strs
        ELSE strs
             \cup {[t |-> "obj", v |-> "", f |-> fs] : fs \in FieldLists(Docs(d - 1))}
             \cup {[t |-> "arr", v |-> "", f |-> es] : es \in SeqsUpTo(Docs(d - 1), MaxFields)}

\* The payloads terragrunt prints: an object or an array.
Payloads ==
    {[t |-> "obj", v |-> "", f |-> fs] : fs \in FieldLists(Docs(MaxDepth))}
        \cup {[t |-> "arr", v |-> "", f |-> es] : es \in SeqsUpTo(Docs(MaxDepth), MaxFields)}

Spaces(n) == [i \in 1..n |-> Space]

\* A line break followed by the indentation of depth d (two spaces a level),
\* nothing in the compact layout.
Break(indented, d) == IF indented THEN <<NL>> \o Spaces(2 * d) ELSE <<>>

\* The text of a document, compact on one line or indented by two spaces as
\* json.MarshalIndent(v, "", "  ") lays it out.
RECURSIVE PrintDoc(_, _, _)
RECURSIVE PrintItems(_, _, _, _, _)
PrintItems(isObj, items, i, indented, d) ==
    IF i > Len(items) THEN <<>>
    ELSE Break(indented, d)
         \o (IF isObj
             THEN <<items[i][1], Colon>> \o (IF indented THEN <<Space>> ELSE <<>>)
                    \o PrintDoc(items[i][2], indented, d)
             ELSE PrintDoc(items[i], indented, d))
         \o (IF i < Len(items) THEN <<Comma>> ELSE <<>>)
         \o PrintItems(isObj, items, i + 1, indented, d)

PrintDoc(doc, indented, d) ==
    IF doc.t = "str" THEN <<doc.v>>
    ELSE LET open == IF doc.t = "obj" THEN LBrace ELSE LBracket
             close == IF doc.t = "obj" THEN RBrace ELSE RBracket
         IN  IF Len(doc.f) = 0 THEN <<open, close>>
             ELSE <<open>> \o PrintItems(doc.t = "obj", doc.f, 1, indented, d + 1)
                    \o Break(indented, d) \o <<close>>

\* Values as json.Unmarshal stores them in an interface{}: a string, a
\* map[string]interface{} (a function of its keys) or a []interface{}.
GoString(x) == [t |-> "str", v |-> x]
GoMap(m) == [t |-> "obj", v |-> m]
GoSlice(es) == [t |-> "arr", v |-> es]

\* m[k] = v of a Go map: a later value of a key replaces the earlier one.
MapSet(m, k, v) == [x \in DOMAIN m \cup {k} |-> IF x = k THEN v ELSE m[x]]

Fail == [ok |-> FALSE, v |-> GoString(""), rest |-> <<>>]

SkipSpace(s) == TrimLeft(s, {Space, NL})

\* The decoder of json.Unmarshal: a value at the head of s, and what follows it.
RECURSIVE ParseValue(_)
RECURSIVE ParseMembers(_, _)
RECURSIVE ParseElements(_, _)
ParseValue(s0) ==
    LET s == SkipSpace(s0)
    IN  IF s = <<>> THEN Fail
        ELSE IF Head(s) \in AllJsonStrings
        THEN [ok |-> TRUE, v |-> GoString(Head(s)), rest |-> Tail(s)]
        ELSE IF Head(s) = LBrace
        THEN LET r == SkipSpace(Tail(s))
             IN  IF r # <<>> /\ Head(r) = RBrace
                 THEN [ok |-> TRUE, v |-> GoMap(<<>>), rest |-> Tail(r)]
                 ELSE ParseMembers(r, <<>>)
        ELSE IF Head(s) = LBracket
        THEN LET r == SkipSpace(Tail(s))
             IN  IF r # <<>> /\ Head(r) = RBracket
                 THEN [ok |-> TRUE, v |-> GoSlice(<<>>), rest |-> Tail(r)]
                 ELSE ParseElements(r, <<>>)
        ELSE Fail

\* key ":" value, then "," and more members, or "}".
ParseMembers(s0, m) ==
    LET s == SkipSpace(s0)
    IN  IF s = <<>> \/ Head(s) \notin AllJsonStrings THEN Fail
        ELSE LET c == SkipSpace(Tail(s))
             IN  IF c = <<>> \/ Head(c) # Colon THEN Fail
                 ELSE LET val == ParseValue(Tail(c))
                          r == SkipSpace(val.rest)
                          m2 == MapSet(m, Head(s), val.v)
                      IN  IF ~val.ok \/ r = <<>> THEN Fail
                          ELSE IF Head(r) = Comma THEN ParseMembers(Tail(r), m2)
                          ELSE IF Head(r) = RBrace
                          THEN [ok |-> TRUE, v |-> GoMap(m2), rest |-> Tail(r)]
                          ELSE Fail

\* value, then "," and more elements, or "]".
ParseElements(s, es) ==
    LET val == ParseValue(s)
        r == SkipSpace(val.rest)
    IN  IF ~val.ok \/ r = <<>> THEN Fail
        ELSE IF Head(r) = Comma THEN ParseElements(Tail(r), Append(es, val.v))
        ELSE IF Head(r) = RBracket
        THEN [ok |-> TRUE, v |-> GoSlice(Append(es, val.v)), rest |-> Tail(r)]
        ELSE Fail

\* json.Unmarshal(text, &jsonObj): one value and nothing but white space after it.
Unmarshal(text) ==
    LET val == ParseValue(text)
    IN  IF val.ok /\ SkipSpace(val.rest) = <<>> THEN [ok |-> TRUE, v |-> val.v]
        ELSE [ok |-> FALSE, v |-> GoString("")]

\* The string literals in the order of their bytes, as encoding/json sorts the
\* keys of a map.
SortedStrings == <<StrMsg, StrFather, StrMother>>

\* The keys of the map m in the order in which order lists them.
RECURSIVE KeysFrom(_, _, _)
KeysFrom(order, i, m) ==
    IF i > Len(order) THEN <<>>
    ELSE (IF order[i] \in DOMAIN m THEN <<order[i]>> ELSE <<>>) \o KeysFrom(order, i + 1, m)

\* The document json.MarshalIndent writes for a value: the keys of every map
\* in the order keyOrder lists them.
RECURSIVE DocOf(_, _)
DocOf(val, keyOrder) ==
    IF val.t = "str" THEN [t |-> "str", v |-> val.v, f |-> <<>>]
    ELSE IF val.t = "obj"
    THEN LET ks == KeysFrom(keyOrder, 1, val.v)
         IN  [t |-> "obj", v |-> "",
              f |-> [i \in 1..Len(ks) |-> <<ks[i], DocOf(val.v[ks[i]], keyOrder)>>]]
    ELSE [t |-> "arr", v |-> "",
          f |-> [i \in 1..Len(val.v) |-> DocOf(val.v[i], keyOrder)]]

\* json.MarshalIndent(jsonObj, "", "  ")
MarshalIndent(val) == PrintDoc(DocOf(val, SortedStrings), TRUE, 0)

\* ansiClean: the lines of the input that survive the two filters.
JsonRemainder(input) == Join(KeepLines(Split(tgLogLevelReplace(input))))

cleanTerragruntJson(input) ==
    LET jsonObj == Unmarshal(JsonRemainder(input))
    IN  IF ~jsonObj.ok THEN [value |-> <<>>, err |-> JsonError]
        ELSE [value |-> MarshalIndent(jsonObj.v), err |-> NoError]

\* Raw outputs of "stack output -json": log lines before and after a payload
\* printed compact or indented, or that text cut short by one token.
JsonRawOutputs ==
    {(IF x[3] THEN <<LogSig, NL>> ELSE <<>>)
        \o (LET text == PrintDoc(x[1], x[2], 0)
            IN  IF x[5] THEN SubSeq(text, 1, Len(text) - 1) ELSE text)
        \o (IF x[4] THEN <<NL, LogSig>> ELSE <<>>) :
     x \in Payloads \X BOOLEAN \X BOOLEAN \X BOOLEAN \X BOOLEAN}

InitJson ==
    /\ pc = "rawJson"
    /\ opts \in [TerragruntBinary : {"terragrunt"},
                 TerragruntDir : {"live"},
                 MaxRetries : {0},
                 RetryableTerraformErrors : {{}},
                 WarningsAsErrors : WarningMaps({})]
    /\ entry = "outputJson"
    /\ additionalArgs = <<>>
    /\ key = ""
    /\ Idle
    /\ rawOutput \in JsonRawOutputs
    /\ cleaned = <<>>
    /\ recleaned = <<>>

\* TgOutputJsonE: cleanTerragruntJson(rawOutput)
CleanJson ==
    /\ pc = "rawJson"
    /\ cleaned' = cleanTerragruntJson(rawOutput).value
    /\ err' = cleanTerragruntJson(rawOutput).err
    /\ pc' = "cleanedJson"
    /\ UNCHANGED <<opts, entry, additionalArgs, key, commandArgs, finalArgs, probeCalls,
                   execCalls, retries, procErr, shellOut, output, rawOutput, recleaned>>

NextJson == CleanJson

SpecJson == InitJson /\ [][NextJson]_vars

(***************************************************************************)
(* Properties of command construction and execution.                       *)
(***************************************************************************)
\* Number of occurrences of tok in s.
RECURSIVE Count(_, _)
Count(tok, s) ==
    IF s = <<>> THEN 0
    ELSE (IF Head(s) = tok THEN 1 ELSE 0) + Count(tok, Tail(s))

\* C1: once the argument vector is built, a `run` call has a "--" token
\* followed by exactly the additional arguments in their order, and "--" was
\* put in once; on every other path (bare stack command, stack output) the
\* vector holds no "--" beyond those the caller passed.
SeparatorOnlyForRun ==
    Len(finalArgs) > 0 =>
        IF entry = "run"
        THEN /\ \E i \in 1..Len(finalArgs) :
                   /\ finalArgs[i] = "--"
                   /\ SubSeq(finalArgs, i + 1, Len(finalArgs)) = additionalArgs
             /\ Count("--", finalArgs) = Count("--", additionalArgs) + 1
        ELSE /\ Count("--", finalArgs) = Count("--", additionalArgs)
             /\ SubSeq(finalArgs, Len(finalArgs) - Len(additionalArgs)
                                    - (IF key # "" THEN 1 ELSE 0) + 1,
                       Len(finalArgs) - (IF key # "" THEN 1 ELSE 0)) = additionalArgs

SeparatorWitness ==
    /\ pc = "done"
    /\ entry = "run"
    /\ additionalArgs = <<"plan", "--">>
    /\ finalArgs = <<"-experiment", "stack", "stack", "run", "--", "plan", "--">>

\* C2: a call never executes the command more than MaxRetries + 1 times, and
\* a call that ends on a failure matched by a retryable pattern has executed it
\* exactly MaxRetries + 1 times; when that failure is a process failure it is
\* the error the call returns.
RetryBudget ==
    /\ execCalls <= opts.MaxRetries + 1
    /\ (pc = "done" /\ IsRetryable(opts.RetryableTerraformErrors, err))
          => execCalls = opts.MaxRetries + 1
    /\ (pc = "done" /\ IsRetryable(opts.RetryableTerraformErrors, procErr))
          => (execCalls = opts.MaxRetries + 1 /\ err = procErr)

RetryBudgetWitness ==
    /\ pc = "done"
    /\ opts.MaxRetries = 2
    /\ execCalls = 3
    /\ procErr = ProcessError("transient")
    /\ err = procErr

\* C3: an attempt that ends with a warning-as-error ends the call: the
\* command is not executed again.
WarningIsTerminal ==
    err.kind = "warning" => pc = "done"

\* C4: with an empty binary path or working directory no process is run,
\* neither the capability probe nor the command, and the call ends with a
\* configuration error.
RequiredOptionsNoProcess ==
    validateOptions(opts) # NoError =>
        /\ probeCalls = 0
        /\ execCalls = 0
        /\ retries = 0
        /\ pc = "done" => err = ConfigError

\* C5 as stated: a process failure no retryable pattern matches ends a call
\* in which the command was executed exactly once.
NonRetryableExactlyOnce ==
    (pc = "done" /\ procErr.kind = "process"
        /\ ~IsRetryable(opts.RetryableTerraformErrors, procErr))
        => (err = procErr /\ execCalls = 1)

\* C5 amended: a process failure no retryable pattern matches ends the call at
\* once with that failure: the command is not executed again, so it has been
\* executed once more than the call has waited (exactly once when the failing
\* attempt is the first), whatever MaxRetries is.
NonRetryableImmediate ==
    (procErr.kind = "process" /\ ~IsRetryable(opts.RetryableTerraformErrors, procErr))
        => /\ pc = "done"
           /\ err = procErr
           /\ execCalls = retries + 1
           /\ retries = 0 => execCalls = 1

NonRetryableWitness ==
    /\ pc = "done"
    /\ procErr = ProcessError("permanent")
    /\ opts.MaxRetries = 2
    /\ opts.RetryableTerraformErrors = {"transient"}
    /\ execCalls = 1
    /\ err = procErr

\* Whether out holds "\nWarning: <pattern>...\n" somewhere.
HoldsWarning(pattern, out) ==
    \E i \in 1..Len(out) : \E j \in 1..Len(out) :
        /\ i + 1 < j
        /\ out[i] = NL
        /\ MatchesAt(pattern, out[i + 1])
        /\ out[j] = NL

\* C6: a call that returns no error returns the output of its last process
\* execution, that execution succeeded, and the output holds no
\* "\nWarning: <pattern>...\n" for any configured pattern.
SuccessHasNoWarning ==
    (pc = "done" /\ err = NoError) =>
        /\ execCalls >= 1
        /\ procErr = NoError
        /\ output = shellOut
        /\ \A p \in DOMAIN opts.WarningsAsErrors :
              Compiles(p) /\ ~HoldsWarning(p, output)

SuccessWitness ==
    /\ pc = "done"
    /\ err = NoError
    /\ PatDeprecat \in DOMAIN opts.WarningsAsErrors
    /\ output = <<WarnDeprecat, NL>>

\* C8: a call with valid required options and a malformed pattern in
\* WarningsAsErrors ends with the regex-compilation error after one execution
\* of the command.
MalformedPatternReported ==
    (pc = "done" /\ validateOptions(opts) = NoError
        /\ PatMalformed \in DOMAIN opts.WarningsAsErrors)
        => (err = RegexError(PatMalformed) /\ execCalls = 1)

(***************************************************************************)
(* Properties of hasWarning.                                               *)
(***************************************************************************)
\* The warning lines of a pattern in out: each the text between two newlines
\* that begins with "Warning: <pattern>".
WarningLines(pattern, out) ==
    {SubSeq(out, i + 1, j - 1) : <<i, j>> \in
        {x \in (1..Len(out)) \X (1..Len(out)) :
            /\ x[1] + 1 < x[2]
            /\ out[x[1]] = NL
            /\ MatchesAt(pattern, out[x[1] + 1])
            /\ x[2] = NextNL(out, x[1] + 1)}}

\* The text of a warning error after "warning(s) were found: ": the message,
\* then the matches joined by "".
RECURSIVE Concat(_)
Concat(ss) == IF ss = <<>> THEN <<>> ELSE Head(ss) \o Concat(Tail(ss))

ErrorText(e) == <<e.msg, ":", NL>> \o Concat(e.matches)

\* Whether sub occurs in text.
Occurs(sub, text) ==
    \E i \in 0..(Len(text) - Len(sub)) : SubSeq(text, i + 1, i + Len(sub)) = sub

\* C7: when the output holds warning lines of a configured pattern P (and no
\* other configured pattern is malformed or has warning lines of its own),
\* hasWarning fails with an error whose text holds the message of P and every
\* one of those warning lines.
EveryWarningLineReported ==
    pc \in {"warned", "rewarned"} =>
        \A p \in DOMAIN opts.WarningsAsErrors :
            (/\ Compiles(p)
             /\ WarningLines(p, output) # {}
             /\ \A q \in DOMAIN opts.WarningsAsErrors \ {p} :
                   Compiles(q) /\ WarningLines(q, output) = {})
            => /\ err.kind = "warning"
               /\ Occurs(<<opts.WarningsAsErrors[p]>>, ErrorText(err))
               /\ \A line \in WarningLines(p, output) : Occurs(line, ErrorText(err))

\* The patterns of a mapping that compile and match a warning of out.
MatchingPatterns(warnings, out) ==
    {p \in DOMAIN warnings : Compiles(p) /\ FindAllString(p, out) # <<>>}

\* C13: a second call of hasWarning with the same Options and the same
\* output returns the error the first call returned.
SameErrorEveryCall ==
    [][pc = "warned" => err' = err]_vars

\* C13 where it is about: the same, for an output in which two or more
\* patterns match and none is malformed.
SameErrorWhenSeveralMatch ==
    [][(pc = "warned"
        /\ \A p \in DOMAIN opts.WarningsAsErrors : Compiles(p)
        /\ Cardinality(MatchingPatterns(opts.WarningsAsErrors, output)) >= 2)
            => err' = err]_vars

\* The part of C13 that does not rest on the order: when no pattern is
\* malformed, hasWarning fails exactly when some pattern matches, and then with
\* the message and the matches of one matching pattern only.
OneMatchingPatternReported ==
    (pc \in {"warned", "rewarned"}
        /\ \A p \in DOMAIN opts.WarningsAsErrors : Compiles(p)) =>
        IF MatchingPatterns(opts.WarningsAsErrors, output) = {} THEN err = NoError
        ELSE \E p \in MatchingPatterns(opts.WarningsAsErrors, output) :
                err = WarningError(opts.WarningsAsErrors[p], FindAllString(p, output))

(***************************************************************************)
(* Properties of cleanTerragruntOutput.                                    *)
(***************************************************************************)
\* C9: a filtered scalar text that begins and ends with a double quote is
\* returned without its first and its last character, and otherwise whole.
OneQuotePairStripped ==
    pc = "cleaned" =>
        LET f == FilteredText(rawOutput)
        IN  (Len(f) >= 2 /\ HasPrefix(f, Quote) /\ HasSuffix(f, Quote))
                => cleaned = SubSeq(f, 2, Len(f) - 1)

\* A text with no line that holds the structured-log signature.
NoLogLine(s) == ~Contains(s, LogSig)

\* C10 as stated: a text with no log line and no surrounding double quotes is
\* returned unchanged and without error, and cleaning a cleaned text returns
\* it unchanged.
CleanIsIdempotent ==
    /\ (pc \in {"cleaned", "recleaned"} /\ NoLogLine(rawOutput)
          /\ ~(HasPrefix(rawOutput, Quote) /\ HasSuffix(rawOutput, Quote)))
          => (cleaned = rawOutput /\ err = NoError)
    /\ pc = "recleaned" => (recleaned = cleaned /\ err = NoError)

\* A text the cleaner has nothing to do on: no blank line, no line with
\* leading or trailing whitespace, no line that holds " msg=" or the log
\* signature, and not both a leading and a trailing double quote.
IsClean(s) ==
    \/ s = <<>>
    \/ /\ \A k \in 1..Len(Split(s)) :
             LET line == Split(s)[k]
             IN  /\ line # <<>>
                 /\ ~IsSpace(line[1])
                 /\ ~IsSpace(line[Len(line)])
                 /\ ~HoldsMsg(line)
       /\ ~(HasPrefix(s, Quote) /\ HasSuffix(s, Quote))

\* The second half of C10 alone: cleaning a cleaned text returns it unchanged.
RecleanUnchanged ==
    pc = "recleaned" => recleaned = cleaned

\* C10 amended: a text with no blank line, no line with leading or trailing
\* whitespace, no line holding " msg=" and not both a leading and a trailing
\* double quote is returned unchanged and without error; cleaning the result
\* of a cleaning that stripped no quotes returns that result unchanged.
CleanTextUnchanged ==
    /\ (pc \in {"cleaned", "recleaned"} /\ IsClean(rawOutput))
          => (cleaned = rawOutput /\ err = NoError)
    /\ (pc = "recleaned" /\ cleaned = FilteredText(rawOutput))
          => (recleaned = cleaned /\ err = NoError)

CleanTextWitness ==
    /\ pc = "recleaned"
    /\ rawOutput = <<Letter, Quote, NL, LBrace>>
    /\ cleaned = rawOutput
    /\ recleaned = rawOutput

(***************************************************************************)
(* Properties of cleanTerragruntJson.                                      *)
(***************************************************************************)
\* The keys of the objects of a JSON text in the order they are written: the
\* string literals that a ":" follows.
RECURSIVE KeysOf(_)
KeysOf(text) ==
    IF text = <<>> THEN <<>>
    ELSE (IF /\ Head(text) \in AllJsonStrings
             /\ SkipSpace(Tail(text)) # <<>>
             /\ Head(SkipSpace(Tail(text))) = Colon
          THEN <<Head(text)>> ELSE <<>>)
         \o KeysOf(Tail(text))

\* Number of tokens of the set toks among the first n of text.
CountIn(text, n, toks) == Cardinality({i \in 1..n : text[i] \in toks})

\* Every line break of text is followed by two spaces for each object or
\* array open at that place (the line of a closing bracket counts as outside).
IndentedByTwo(text) ==
    \A i \in 1..Len(text) :
        text[i] = NL =>
            LET after == SubSeq(text, i + 1, Len(text))
                line == TrimLeft(after, {Space})
                depth == CountIn(text, i, {LBrace, LBracket})
                            - CountIn(text, i, {RBrace, RBracket})
                closes == line # <<>> /\ Head(line) \in {RBrace, RBracket}
            IN  Len(after) - Len(line) = 2 * (depth - (IF closes THEN 1 ELSE 0))

\* C11: when the filtered remainder of the raw output is a valid JSON object,
\* cleanTerragruntJson returns without error a text indented by two spaces
\* whose keys are in the order of the input; when the remainder is not valid
\* JSON it returns an error and the empty string.
FieldOrderKept ==
    pc = "cleanedJson" =>
        LET remainder == JsonRemainder(rawOutput)
            parsed == Unmarshal(remainder)
        IN  /\ (parsed.ok /\ parsed.v.t = "obj")
                  => /\ err = NoError
                     /\ IndentedByTwo(cleaned)
                     /\ KeysOf(cleaned) = KeysOf(remainder)
            /\ ~parsed.ok => (err # NoError /\ cleaned = <<>>)

\* The rest of C11 without the field order: the layout and the failure mode.
IndentedOrError ==
    pc = "cleanedJson" =>
        LET parsed == Unmarshal(JsonRemainder(rawOutput))
        IN  /\ parsed.ok => (err = NoError /\ IndentedByTwo(cleaned))
            /\ ~parsed.ok => (err # NoError /\ cleaned = <<>>)

\* The payload of a raw output alone: its lines other than the log lines.
RECURSIVE DropLogLines(_)
DropLogLines(lines) ==
    IF lines = <<>> THEN <<>>
    ELSE (IF Contains(Head(lines), LogSig) THEN <<>> ELSE <<Head(lines)>>)
         \o DropLogLines(Tail(lines))

PayloadOf(raw) == Join(DropLogLines(Split(raw)))

\* C12: for a raw output of log lines and one valid JSON payload,
\* cleanTerragruntJson succeeds and its result parses to the value the
\* payload alone parses to.
JsonRoundTrip ==
    (pc = "cleanedJson" /\ Unmarshal(PayloadOf(rawOutput)).ok) =>
        /\ err = NoError
        /\ Unmarshal(cleaned) = Unmarshal(PayloadOf(rawOutput))

\* C12 for the payloads none of whose strings holds " msg=".
JsonRoundTripNoMsg ==
    (pc = "cleanedJson" /\ Unmarshal(PayloadOf(rawOutput)).ok
        /\ ~Contains(rawOutput, StrMsg)) =>
        /\ err = NoError
        /\ Unmarshal(cleaned) = Unmarshal(PayloadOf(rawOutput))

====
